---- MODULE Spec2Model ----
(***************************************************************************)
(* find_clusters(X, n_clusters, rseed) of k-means_clustering_GMM: the      *)
(* "k-means from scratch" loop (Lloyd's algorithm).                        *)
(*                                                                         *)
(* Arithmetic is exact: a point is a pair of integers, a centre is the     *)
(* rational vector s / n kept as the record [s |-> sum, n |-> count], and  *)
(* n = 0 stands for the NaN row numpy produces for the mean of no rows.    *)
(* Arrays are functions over 0 .. len-1, as in the source.                 *)
(***************************************************************************)
EXTENDS Integers, Sequences, FiniteSets, TLC

\* ---- bounds of the checked inputs ----
MaxN == 3
MaxCoord == 2
MaxSeed == 1

\* the notebook's data is two-dimensional (make_blobs default n_features)
Points == (0..MaxCoord) \X (0..MaxCoord)

VARIABLES X, n_clusters, rseed, i, centers, labels, new_centers, pc, err,
          iterations, trace, calls, prev

vars == <<X, n_clusters, rseed, i, centers, labels, new_centers, pc, err,
          iterations, trace, calls, prev>>

\* X.shape[0]
Shape0(A) == Cardinality(DOMAIN A)

NaN == [s |-> <<0, 0>>, n |-> 0]

IsNaN(c) == c.n = 0

\* a row of X seen as a centre (centers = X[i] copies the rows)
Row(p) == [s |-> p, n |-> 1]

\* mutant: indices drawn with replacement (every draw gives the same index)
WithReplacement(seed, n) == [j \in 0..(n - 1) |-> seed % n]

\* rng.permutation(n) for RandomState(seed): a permutation of 0..n-1 that is a
\* function of the seed alone
Permutation(seed, n) == [j \in 0..(n - 1) |-> (j + seed) % n]

\* perm[:k]
Prefix(perm, k) ==
    LET m == IF k < Shape0(perm) THEN k ELSE Shape0(perm)
    IN  [j \in 0..(m - 1) |-> perm[j]]

\* squared Euclidean distance of point p to centre c is SqNum / SqDen
SqNum(p, c) == (c.n * p[1] - c.s[1]) * (c.n * p[1] - c.s[1])
             + (c.n * p[2] - c.s[2]) * (c.n * p[2] - c.s[2])

SqDen(c) == c.n * c.n

Closer(p, c1, c2) == SqNum(p, c1) * SqDen(c2) < SqNum(p, c2) * SqDen(c1)

\* mutant: among equally near centres take the highest index
ArgminLast(p, C) ==
    CHOOSE k \in DOMAIN C :
        /\ \A j \in DOMAIN C : ~Closer(p, C[j], C[k])
        /\ \A j \in DOMAIN C : j > k => Closer(p, C[k], C[j])

\* mutant: the farthest centre instead of the nearest
ArgFarthest(p, C) ==
    CHOOSE k \in DOMAIN C :
        /\ \A j \in DOMAIN C : ~Closer(p, C[k], C[j])
        /\ \A j \in DOMAIN C : j < k => Closer(p, C[j], C[k])

\* one row of pairwise_distances_argmin: first index of the minimum distance
Argmin(p, C) ==
    CHOOSE k \in DOMAIN C :
        /\ \A j \in DOMAIN C : ~Closer(p, C[j], C[k])
        /\ \A j \in DOMAIN C : j < k => Closer(p, C[k], C[j])

\* pairwise_distances_argmin(X, centers)
PairwiseDistancesArgmin(A, C) == [j \in DOMAIN A |-> Argmin(A[j], C)]

RECURSIVE SumRows(_, _, _, _)
\* sum and count of the rows A[j], j < m, with lab[j] = k
SumRows(A, lab, k, m) ==
    IF m = 0 THEN [s |-> <<0, 0>>, n |-> 0]
    ELSE LET r == SumRows(A, lab, k, m - 1)
         IN  IF lab[m - 1] = k
             THEN [s |-> <<r.s[1] + A[m - 1][1], r.s[2] + A[m - 1][2]>>,
                   n |-> r.n + 1]
             ELSE r

\* mutant: the "mean" is the first row of the cluster
FirstRow(A, lab, k) ==
    IF \E j \in DOMAIN A : lab[j] = k
    THEN Row(A[CHOOSE j \in DOMAIN A :
                 lab[j] = k /\ \A h \in DOMAIN A : lab[h] = k => j <= h])
    ELSE NaN

\* X[labels == k].mean(0); the mean of no rows is NaN
Mean(A, lab, k) ==
    LET r == SumRows(A, lab, k, Shape0(A))
    IN  IF r.n = 0 THEN NaN ELSE r

\* np.array([X[labels == i].mean(0) for i in range(n_clusters)])
NewCenters(A, lab, k) == [c \in 0..(k - 1) |-> Mean(A, lab, c)]

\* elementwise ==  of two rows; NaN equals nothing
RowEq(c1, c2) ==
    /\ ~IsNaN(c1)
    /\ ~IsNaN(c2)
    /\ c1.s[1] * c2.n = c2.s[1] * c1.n
    /\ c1.s[2] * c2.n = c2.s[2] * c1.n

\* mutant: compare the first coordinate only
AllEqualFirstCoord(C1, C2) ==
    \A k \in DOMAIN C2 :
        /\ ~IsNaN(C1[k])
        /\ ~IsNaN(C2[k])
        /\ C1[k].s[1] * C2[k].n = C2[k].s[1] * C1[k].n

\* np.all(centers == new_centers) for arrays of the same shape
AllEqual(C1, C2) == \A k \in DOMAIN C2 : RowEq(C1[k], C2[k])

\* np.all(centers == new_centers) when centers has one row (broadcast)
AllEqualBroadcast(C1, C2) == \A k \in DOMAIN C2 : RowEq(C1[0], C2[k])

NoCall == [status |-> "none", centers |-> <<>>, labels |-> <<>>, trace |-> <<>>]

Init ==
    /\ \E n \in 1..MaxN : X \in [0..(n - 1) -> Points]
    /\ n_clusters \in 1..(MaxN + 1)
    /\ rseed \in 0..MaxSeed
    /\ i = <<>>
    /\ centers = <<>>
    /\ labels = <<>>
    /\ new_centers = <<>>
    /\ pc = "init"
    /\ err = "none"
    /\ iterations = 0
    /\ trace = <<>>
    /\ calls = 0
    /\ prev = NoCall

\* mutant: the generator is shared by the calls instead of seeded per call
ChooseGlobalRng ==
    /\ pc = "init"
    /\ i' = Prefix(Permutation(rseed + calls, Shape0(X)), n_clusters)
    /\ centers' = [k \in DOMAIN i' |-> Row(X[i'[k]])]
    /\ pc' = "assign"
    /\ UNCHANGED <<X, n_clusters, rseed, labels, new_centers, err, iterations,
                   trace, calls, prev>>

\* 1. Randomly choose clusters
Choose ==
    /\ pc = "init"
    /\ i' = Prefix(Permutation(rseed, Shape0(X)), n_clusters)
    /\ centers' = [k \in DOMAIN i' |-> Row(X[i'[k]])]
    /\ pc' = "assign"
    /\ UNCHANGED <<X, n_clusters, rseed, labels, new_centers, err, iterations,
                   trace, calls, prev>>

\* 2a. Assign labels based on closest center.  pairwise_distances_argmin
\* validates its arguments and raises ValueError on a NaN entry.
Assign ==
    /\ pc = "assign"
    /\ iterations' = iterations + 1
    /\ IF \E k \in DOMAIN centers : IsNaN(centers[k])
       THEN /\ pc' = "error"
            /\ err' = "ValueError"
            /\ UNCHANGED <<labels, trace>>
       ELSE /\ labels' = PairwiseDistancesArgmin(X, centers)
            /\ trace' = Append(trace, [centers |-> centers, labels |-> labels'])
            /\ pc' = "update"
            /\ UNCHANGED err
    /\ UNCHANGED <<X, n_clusters, rseed, i, centers, new_centers, calls, prev>>

\* 2b. Find new centers from means of points
Update ==
    /\ pc = "update"
    /\ new_centers' = NewCenters(X, labels, n_clusters)
    /\ pc' = "check"
    /\ UNCHANGED <<X, n_clusters, rseed, i, centers, labels, err, iterations,
                   trace, calls, prev>>

\* break
Converged ==
    /\ pc' = "done"
    /\ UNCHANGED <<X, centers, err>>

\* mutant: the new centres are written into the chosen rows of X
ReplaceInPlace ==
    /\ centers' = new_centers
    /\ X' = [j \in DOMAIN X |->
               IF \E k \in DOMAIN i : i[k] = j /\ ~IsNaN(new_centers[k])
               THEN LET k == CHOOSE h \in DOMAIN i : i[h] = j
                    IN  <<new_centers[k].s[1] \div new_centers[k].n,
                          new_centers[k].s[2] \div new_centers[k].n>>
               ELSE X[j]]
    /\ pc' = "assign"
    /\ UNCHANGED err

\* mutant: the new centres are dropped and the old ones kept
ReplaceDropped ==
    /\ pc' = "assign"
    /\ UNCHANGED <<X, centers, err>>

\* centers = new_centers rebinds the name; X keeps its rows
Replace ==
    /\ centers' = new_centers
    /\ pc' = "assign"
    /\ UNCHANGED <<X, err>>

\* centers == new_centers raises for shapes that do not broadcast
Raise ==
    /\ pc' = "error"
    /\ err' = "ValueError"
    /\ UNCHANGED <<X, centers>>

\* 2c. Check for convergence.  With n_clusters > X.shape[0] the two arrays
\* differ in shape: one row broadcasts; otherwise the comparison raises or
\* yields a scalar False, depending on the numpy release.
Check ==
    /\ pc = "check"
    /\ IF Shape0(centers) = Shape0(new_centers)
       THEN IF AllEqual(centers, new_centers) THEN Converged ELSE Replace
       ELSE IF Shape0(centers) = 1
            THEN IF AllEqualBroadcast(centers, new_centers)
                 THEN Converged ELSE Replace
            ELSE Raise \/ Replace
    /\ UNCHANGED <<n_clusters, rseed, i, labels, new_centers, iterations,
                   trace, calls, prev>>

\* the caller repeats the call with the same arguments
Rerun ==
    /\ pc \in {"done", "error"}
    /\ calls = 0
    /\ prev' = [status |-> pc, centers |-> centers, labels |-> labels,
                trace |-> trace]
    /\ calls' = 1
    /\ i' = <<>>
    /\ centers' = <<>>
    /\ labels' = <<>>
    /\ new_centers' = <<>>
    /\ pc' = "init"
    /\ err' = "none"
    /\ iterations' = 0
    /\ trace' = <<>>
    /\ UNCHANGED <<X, n_clusters, rseed>>

Next == Choose \/ Assign \/ Update \/ Check \/ Rerun

Spec == Init /\ [][Next]_vars

\* one call of find_clusters, from entry to return or exception
RunStep == Choose \/ Assign \/ Update \/ Check

\* the interpreter keeps executing a call that can take a step
FairSpec == Init /\ [][RunStep]_vars /\ WF_vars(RunStep)

\* ---------------------------------------------------------------------------
\* Properties
\* ---------------------------------------------------------------------------

\* a cap a caller of the specified interface may ask for (max_iterations)
max_iterations == 1

\* the run has performed an assignment step and has not failed
Assigned == pc \in {"update", "check", "done"} \/ (pc = "assign" /\ iterations >= 1)

\* point p is exactly as far from centre c1 as from centre c2
Equidistant(p, c1, c2) == ~Closer(p, c1, c2) /\ ~Closer(p, c2, c1)

RECURSIVE Fact(_)
Fact(n) == IF n <= 1 THEN 1 ELSE n * Fact(n - 1)

RECURSIVE SSESum(_, _, _, _, _)
\* Fact(N)^2 times the sum over the points j < m of the squared distance of
\* A[j] to the centre C[lab[j]]
SSESum(A, C, lab, L, m) ==
    IF m = 0 THEN 0
    ELSE SSESum(A, C, lab, L, m - 1)
         + SqNum(A[m - 1], C[lab[m - 1]])
           * (L \div C[lab[m - 1]].n) * (L \div C[lab[m - 1]].n)

\* within-cluster sum of squared distances of one iteration (scaled)
SSE(e) == SSESum(X, e.centers, e.labels, Fact(Shape0(X)), Shape0(X))

\* C1: when a run returns, every point's label is the lowest index among the
\* returned centres at minimum Euclidean distance from the point.
C1_LabelsNearestReturned ==
    pc = "done" =>
        \A j \in DOMAIN X :
            /\ labels[j] \in DOMAIN centers
            /\ \A k \in DOMAIN centers :
                   /\ ~Closer(X[j], centers[k], centers[labels[j]])
                   /\ k < labels[j] => Closer(X[j], centers[labels[j]], centers[k])

\* a run returned after the centres moved, and some point is equally near to
\* two of the returned centres
C1_Witness ==
    /\ pc = "done"
    /\ n_clusters >= 2
    /\ n_clusters <= Shape0(X)
    /\ iterations >= 2
    /\ \E j \in DOMAIN X : \E k \in DOMAIN centers :
           k # labels[j] /\ Equidistant(X[j], centers[k], centers[labels[j]])

\* C2: when a run returns (converged), every returned centre k is the
\* componentwise mean of exactly the points labelled k.
C2_CentroidIsMean ==
    pc = "done" =>
        \A k \in 0..(n_clusters - 1) :
            LET members == {j \in DOMAIN X : labels[j] = k}
                total == SumRows(X, labels, k, Shape0(X))
            IN  /\ k \in DOMAIN centers
                /\ members # {}
                /\ ~IsNaN(centers[k])
                /\ centers[k].s[1] * Cardinality(members) = total.s[1] * centers[k].n
                /\ centers[k].s[2] * Cardinality(members) = total.s[2] * centers[k].n

\* a run returned two centres, one of them the mean of several points that
\* differ in both coordinates
C2_Witness ==
    /\ pc = "done"
    /\ n_clusters >= 2
    /\ iterations >= 2
    /\ \E j, h \in DOMAIN X :
           /\ labels[j] = labels[h]
           /\ X[j][1] # X[h][1]
           /\ X[j][2] # X[h][2]

\* C3 (as claimed): no run performs more than max_iterations iterations.
C3_IterationCap == iterations <= max_iterations

\* C4: the within-cluster sum of squared distances does not increase from one
\* iteration to the next, so the last value is at most the first.
C4_SSENonIncreasing ==
    /\ \A t \in 1..(Len(trace) - 1) : SSE(trace[t + 1]) <= SSE(trace[t])
    /\ Len(trace) >= 1 => SSE(trace[Len(trace)]) <= SSE(trace[1])

\* three iterations, the sum strictly smaller at each
C4_Witness ==
    /\ Len(trace) >= 3
    /\ SSE(trace[2]) < SSE(trace[1])
    /\ SSE(trace[3]) < SSE(trace[2])

\* C5 (as claimed): with 1 <= n_clusters <= N, the loop never goes on to an
\* iteration, and never returns, with a NaN centre.
C5_NoNaNCentroid ==
    (n_clusters <= Shape0(X) /\ pc \in {"assign", "update", "check", "done"}) =>
        \A k \in DOMAIN centers : ~IsNaN(centers[k])

\* C6 (as claimed): a call with n_clusters > N performs no assignment step and
\* fails with InvalidConfiguration.
C6_RejectedBeforeIteration ==
    n_clusters > Shape0(X) =>
        /\ iterations = 0
        /\ pc \notin {"update", "check", "done"}
        /\ pc = "error" => err = "InvalidConfiguration"

\* the mean of all rows of X
MeanAll == SumRows(X, [j \in DOMAIN X |-> 0], 0, Shape0(X))

\* C7 (as claimed): with n_clusters = 1 the returned centre is the mean of all
\* points and the run returns in exactly one iteration.
C7_OneIteration ==
    (n_clusters = 1 /\ pc = "done") =>
        /\ RowEq(centers[0], MeanAll)
        /\ iterations = 1

\* C7 (amended): with n_clusters = 1 the returned centre is the mean of all
\* points; the run returns in one iteration when the initially chosen point
\* is that mean, and in exactly two iterations otherwise.
C7_MeanInAtMostTwo ==
    (n_clusters = 1 /\ pc = "done") =>
        /\ RowEq(centers[0], MeanAll)
        /\ iterations \in {1, 2}
        /\ iterations = 1 <=> RowEq(Row(X[i[0]]), MeanAll)

\* a single-cluster run over distinct points returned after two iterations
C7_Witness ==
    /\ n_clusters = 1
    /\ pc = "done"
    /\ iterations = 2
    /\ Shape0(X) >= 2
    /\ centers[0].n >= 2

\* s is an initial segment of t
IsPrefix(s, t) == Len(s) <= Len(t) /\ \A k \in 1..Len(s) : s[k] = t[k]

C9_ShapesHold ==
    Assigned =>
        /\ DOMAIN labels = DOMAIN X
        /\ \A j \in DOMAIN labels : labels[j] \in 0..(n_clusters - 1)
        /\ Shape0(centers) = n_clusters

\* C10: no step changes the PointSet or the number of clusters.
C10_InputsUnchanged == [][X' = X /\ n_clusters' = n_clusters]_vars

\* centres first taken from X have been replaced by means that are no row of X
C10_Witness ==
    /\ pc = "assign"
    /\ iterations >= 1
    /\ \E k \in DOMAIN centers :
           /\ ~IsNaN(centers[k])
           /\ \A j \in DOMAIN X : ~RowEq(centers[k], Row(X[j]))

\* C11: for 1 <= n_clusters <= N the initial centres are the rows of X at
\* n_clusters pairwise distinct indices, the first n_clusters entries of the
\* seeded permutation of 0..N-1.
C11_InitialCentroids ==
    (pc = "assign" /\ iterations = 0 /\ n_clusters <= Shape0(X)) =>
        /\ DOMAIN i = 0..(n_clusters - 1)
        /\ \A k \in DOMAIN i : i[k] \in DOMAIN X
        /\ \A k, h \in DOMAIN i : k # h => i[k] # i[h]
        /\ \E perm \in [DOMAIN X -> DOMAIN X] :
               /\ \A a, b \in DOMAIN X : a # b => perm[a] # perm[b]
               /\ \A k \in DOMAIN i : i[k] = perm[k]
        /\ DOMAIN centers = DOMAIN i
        /\ \A k \in DOMAIN centers : centers[k] = Row(X[i[k]])

\* several centres were chosen, fewer than there are points, by a permutation
\* that is not the identity
C11_Witness ==
    /\ pc = "assign"
    /\ iterations = 0
    /\ n_clusters >= 2
    /\ n_clusters < Shape0(X)
    /\ i[0] # 0

\* the two centre sets have the same rows, component by component
SameCentroidSet(C1, C2) ==
    /\ DOMAIN C1 = DOMAIN C2
    /\ \A k \in DOMAIN C1 : RowEq(C1[k], C2[k])

Partition(lab) ==
    {{j \in DOMAIN lab : lab[j] = k} : k \in 0..(n_clusters - 1)} \ {{}}

\* the update step has produced the mean of an empty cluster
EmptyCluster == \E k \in DOMAIN new_centers : IsNaN(new_centers[k])

\* iteration t of the current call went on to replace the centres
Changed(t) == t < Len(trace) \/ pc \in {"assign", "error"}

\* no two iterations that changed the centres produced the same partition
NoRepeatedPartition ==
    n_clusters <= Shape0(X) =>
        \A a, b \in 1..Len(trace) :
            (a < b /\ Changed(a) /\ Changed(b)) =>
                Partition(trace[a].labels) # Partition(trace[b].labels)

\* C13: for 1 <= n_clusters <= N, iterations that change the centres never
\* produce the same label partition twice, and every call eventually reaches
\* its convergence exit unless a cluster becomes empty.
C13_ReachesConvergence ==
    /\ []NoRepeatedPartition
    /\ (pc = "init" /\ n_clusters <= Shape0(X)) ~> (pc = "done" \/ EmptyCluster)

\* a call returned after two iterations that changed the centres, with no
\* cluster ever empty
C13_Witness ==
    /\ pc = "done"
    /\ n_clusters >= 2
    /\ n_clusters <= Shape0(X)
    /\ Len(trace) >= 3
    /\ ~EmptyCluster

====
